---- MODULE Spec2Model ----
(***************************************************************************)
(* Model of the car-listing scripts:                                       *)
(*   src/pro3_st.py     the dashboard: clean_engine_capacity, numeric      *)
(*                      coercion, outlier removal, brand extraction,       *)
(*                      brand/year filters, KPIs, average price per year   *)
(*   src/load_to_db.py  the loader: column normalization, fillna(0),       *)
(*                      create table, commit, row inserts, commit          *)
(*                                                                         *)
(* Text is a sequence of characters, each character a one-element string.  *)
(* The token "sup2" stands for the single character U+00B2 (superscript    *)
(* two): str.isdigit() accepts it, int() rejects it.                       *)
(* A cell of a DataFrame is a tagged value: Num(n), Text(s) or NaN.        *)
(* Numbers are integer-valued (pandas holds them as float64).              *)
(***************************************************************************)
EXTENDS Integers, Sequences, FiniteSets, TLC

VARIABLES
    pc,                \* position in the script being run
    value,             \* engine spec: the cell handed to clean_engine_capacity
    cleaned,           \* engine spec: what clean_engine_capacity returned
    coerced,           \* engine spec: what pd.to_numeric made of it
    label,             \* normalizer spec: a raw column label
    once,              \* normalizer spec: the label normalized
    twice,             \* normalizer spec: the normalized label normalized again
    csv,               \* both scripts: the frame as read_csv returned it
    df,                \* dashboard: the module-level DataFrame df
    selected_brands,   \* dashboard: what the multiselect returned
    selected_years,    \* dashboard: what the slider returned
    df_filtered,       \* dashboard: df after the filters
    kpi,               \* dashboard: the five metrics
    avg_price_per_year,\* dashboard: groupby('year')['price'].mean()
    rows,              \* loader: the DataFrame of load_to_db.py
    table,             \* loader: committed content of dbo.Cars
    pending,           \* loader: rows inserted in the open transaction
    inserted,          \* loader: number of INSERTs that returned
    log                \* loader: the statements and commits the server has seen

engVars  == <<value, cleaned, coerced>>
normVars == <<label, once, twice>>
dashVars == <<df, selected_brands, selected_years, df_filtered, kpi, avg_price_per_year>>
loadVars == <<rows, table, pending, inserted, log>>
vars     == <<pc, csv, engVars, normVars, dashVars, loadVars>>

\* ------------------------------------------------------------------ bounds

MaxLen == 4         \* longest engine_capacity text
MaxLabel == 4       \* longest column label
MaxRows == 2        \* most rows of a dashboard dataset
MaxLoad == 2        \* most rows of a loader dataset

\* ------------------------------------------------------------------ values

NaN == [t |-> "nan", n |-> 0, s |-> <<>>]
Num(n) == [t |-> "num", n |-> n, s |-> <<>>]
Text(s) == [t |-> "str", n |-> 0, s |-> s]
Raised == [t |-> "raise", n |-> 0, s |-> <<>>]

IsNum(v) == v.t = "num"
IsNaN(v) == v.t = "nan"
IsText(v) == v.t = "str"

SeqsUpTo(S, n) == UNION {[1..k -> S] : k \in 0..n}

Min(S) == CHOOSE x \in S : \A y \in S : x <= y
Max(S) == CHOOSE x \in S : \A y \in S : x >= y

\* ------------------------------------------------------------------ characters

AsciiDigits == {"0", "1", "2", "3", "4", "5", "6", "7", "8", "9"}
Whitespace == {" ", "\t"}
Letters == {"a", "b", "c", "k", "w", "h", "x", "A", "B", "C", "T", "H"}

\* str.isdigit()
IsDigit(c) == c \in AsciiDigits \cup {"sup2"}

\* what int() reads as a decimal digit
IsDecimal(c) == c \in AsciiDigits

\* \w of the re module / str.isalnum() or "_"
IsWord(c) == c \in AsciiDigits \cup Letters \cup {"sup2", "_"}

DigitVal(c) == CASE c = "0" -> 0 [] c = "1" -> 1 [] c = "2" -> 2 [] c = "3" -> 3
                 [] c = "4" -> 4 [] c = "5" -> 5 [] c = "6" -> 6 [] c = "7" -> 7
                 [] c = "8" -> 8 [] c = "9" -> 9

LowerChar(c) == CASE c = "A" -> "a" [] c = "B" -> "b" [] c = "C" -> "c"
                  [] c = "T" -> "t" [] c = "H" -> "h" [] OTHER -> c

\* str.lower()
Lower(s) == [i \in 1..Len(s) |-> LowerChar(s[i])]

\* str.replace(a, "")
RemoveChar(s, a) == SelectSeq(s, LAMBDA c : c # a)

\* str.replace(a, b) for single characters
ReplaceChar(s, a, b) == [i \in 1..Len(s) |-> IF s[i] = a THEN b ELSE s[i]]

\* pat in v
Contains(v, pat) == \E i \in 1..(Len(v) - Len(pat) + 1) : SubSeq(v, i, i + Len(pat) - 1) = pat

RECURSIVE LStrip(_)
LStrip(s) == IF s # <<>> /\ Head(s) \in Whitespace THEN LStrip(Tail(s)) ELSE s

RECURSIVE RStrip(_)
RStrip(s) == IF s # <<>> /\ s[Len(s)] \in Whitespace THEN RStrip(SubSeq(s, 1, Len(s) - 1)) ELSE s

\* str.strip()
Strip(s) == RStrip(LStrip(s))

\* int() of a text of decimal digits
RECURSIVE ParseInt(_)
ParseInt(s) == IF s = <<>> THEN 0 ELSE 10 * ParseInt(SubSeq(s, 1, Len(s) - 1)) + DigitVal(s[Len(s)])

\* str() of a natural number
DigitChar(n) == CASE n = 0 -> "0" [] n = 1 -> "1" [] n = 2 -> "2" [] n = 3 -> "3"
                  [] n = 4 -> "4" [] n = 5 -> "5" [] n = 6 -> "6" [] n = 7 -> "7"
                  [] n = 8 -> "8" [] n = 9 -> "9"

RECURSIVE Digits(_)
Digits(n) == IF n < 10 THEN <<DigitChar(n)>> ELSE Digits(n \div 10) \o <<DigitChar(n % 10)>>

\* ------------------------------------------------------------------ pro3_st.py: cleaning

\* lines 27-36
clean_engine_capacity(v) ==
    IF IsText(v)
    THEN LET low == RemoveChar(Lower(v.s), " ")
             num == SelectSeq(low, IsDigit)
         IN  IF num = <<>> THEN NaN
             ELSE IF \E i \in 1..Len(num) : ~IsDecimal(num[i]) THEN Raised
             ELSE IF Contains(low, <<"c", "c">>) \/ Contains(low, <<"k", "w", "h">>)
                     \/ Contains(low, <<"k", "w">>)
                  THEN Num(ParseInt(num))
                  ELSE v
    ELSE v

\* pd.to_numeric(..., errors="coerce") on one cell (lines 39, 40): a number stays,
\* a text that is a decimal literal between optional blanks becomes the number,
\* anything else becomes NaN
to_numeric(v) ==
    IF IsNum(v) THEN v
    ELSE IF IsText(v)
         THEN LET b == Strip(v.s)
              IN  IF b # <<>> /\ \A i \in 1..Len(b) : IsDecimal(b[i])
                  THEN Num(ParseInt(b)) ELSE NaN
         ELSE NaN

\* ------------------------------------------------------------------ engine spec

EngineChars == {"2", "0", "c", "k", "w", "C", " ", "\t", "sup2"}
EngineNumbers == {19, 20, 150, 151, 599, 600, 7000, 7001}
EngineInputs(len) == {Text(s) : s \in SeqsUpTo(EngineChars, len) \ {<<>>}}
                       \cup {Num(n) : n \in EngineNumbers} \cup {NaN}

Idle == <<>>

EngIdle == value = Idle /\ cleaned = Idle /\ coerced = Idle
NormIdle == label = Idle /\ once = Idle /\ twice = Idle
DashIdle == /\ df = Idle /\ selected_brands = Idle /\ selected_years = Idle
            /\ df_filtered = Idle /\ kpi = Idle /\ avg_price_per_year = Idle
LoadIdle == rows = Idle /\ table = Idle /\ pending = Idle /\ inserted = 0 /\ log = Idle

InitEngine ==
    /\ pc = "value"
    /\ value \in EngineInputs(MaxLen)
    /\ cleaned = Idle /\ coerced = Idle /\ csv = Idle
    /\ NormIdle /\ DashIdle /\ LoadIdle

\* line 38 on one cell; a raise ends the script
ApplyClean ==
    /\ pc = "value"
    /\ cleaned' = clean_engine_capacity(value)
    /\ pc' = IF cleaned' = Raised THEN "raised38" ELSE "applied"
    /\ UNCHANGED <<csv, value, coerced, normVars, dashVars, loadVars>>

\* line 39 on one cell
Coerce ==
    /\ pc = "applied"
    /\ coerced' = to_numeric(cleaned)
    /\ pc' = "coerced"
    /\ UNCHANGED <<csv, value, cleaned, normVars, dashVars, loadVars>>

NextEngine == ApplyClean \/ Coerce

SpecEngine == InitEngine /\ [][NextEngine]_vars

\* C2: engine-capacity normalization is total: clean_engine_capacity followed by
\* numeric coercion never raises and ends with a number or the missing marker,
\* for every input, text with characters the digit test accepts included.
C2_NormalizationTotal ==
    /\ pc # "raised38"
    /\ pc = "coerced" => IsNum(coerced) \/ IsNaN(coerced)

\* the claimed text rule of C3: all whitespace removed, the maximal leading run
\* of digit characters read as the number
C3_NoBlanks(s) == SelectSeq(Lower(s), LAMBDA c : c \notin Whitespace)

RECURSIVE C3_LeadingRun(_)
C3_LeadingRun(s) == IF s # <<>> /\ IsDigit(Head(s)) THEN <<Head(s)>> \o C3_LeadingRun(Tail(s)) ELSE <<>>

C3_HasUnit(s) == Contains(s, <<"c", "c">>) \/ Contains(s, <<"k", "w">>) \/ Contains(s, <<"k", "w", "h">>)

C3_Stated(s) ==
    LET low == C3_NoBlanks(s)
        run == C3_LeadingRun(low)
    IN  \/ SelectSeq(low, IsDigit) = <<>>
        \/ ~C3_HasUnit(low)
        \/ run # <<>> /\ \A i \in 1..Len(run) : IsDecimal(run[i])

C3_Expected(v) ==
    LET low == C3_NoBlanks(v.s)
    IN  IF SelectSeq(low, IsDigit) = <<>> THEN NaN
        ELSE IF C3_HasUnit(low) THEN Num(ParseInt(C3_LeadingRun(low)))
        ELSE v

\* C3: for every text input, after lower-casing and removing all whitespace: no
\* digits gives missing; with a unit token (cc, kw, kwh) anywhere the result is
\* the number formed by the maximal leading run of digits; otherwise the
\* original value is returned. (Checked where the call returned and the
\* leading run is a decimal number.)
C3_LeadingRunRule ==
    (pc = "applied" /\ IsText(value) /\ C3_Stated(value.s)) => cleaned = C3_Expected(value)

\* ------------------------------------------------------------------ load_to_db.py: column normalization

DeleteNonWordKeepBlanks(s) == SelectSeq(s, LAMBDA c : IsWord(c) \/ c \in Whitespace)

\* .str.replace(r'[^\w]', '', regex=True)
DeleteNonWord(s) == SelectSeq(s, IsWord)

normalize_unstripped(x) == DeleteNonWord(ReplaceChar(x, " ", "_"))

\* line 11
normalize(x) == DeleteNonWord(ReplaceChar(Strip(x), " ", "_"))

LabelChars == {"a", "B", "1", "_", " ", "\t", "-"}
Labels(len) == SeqsUpTo(LabelChars, len) \ {<<>>}

InitNorm ==
    /\ pc = "label"
    /\ label \in Labels(MaxLabel)
    /\ once = Idle /\ twice = Idle /\ csv = Idle
    /\ EngIdle /\ DashIdle /\ LoadIdle

\* line 11 on one label
Normalize ==
    /\ pc = "label"
    /\ once' = normalize(label)
    /\ pc' = "once"
    /\ UNCHANGED <<csv, label, twice, engVars, dashVars, loadVars>>

\* line 11 applied to its own output
NormalizeAgain ==
    /\ pc = "once"
    /\ twice' = normalize(once)
    /\ pc' = "twice"
    /\ UNCHANGED <<csv, label, once, engVars, dashVars, loadVars>>

NextNorm == Normalize \/ NormalizeAgain

SpecNorm == InitNorm /\ [][NextNorm]_vars

\* the label between its first and its last non-whitespace character
C7_Trim(s) ==
    LET I == {i \in 1..Len(s) : s[i] \notin Whitespace}
    IN  IF I = {} THEN <<>> ELSE SubSeq(s, Min(I), Max(I))

C7_Alnum(c) == c \in AsciiDigits \cup Letters \cup {"sup2"}

\* character by character: each of `under` becomes "_", alphanumerics and "_"
\* stay, everything else goes
RECURSIVE C7_PerChar(_, _)
C7_PerChar(s, under) ==
    IF s = <<>> THEN <<>>
    ELSE (IF Head(s) \in under THEN <<"_">>
          ELSE IF C7_Alnum(Head(s)) \/ Head(s) = "_" THEN <<Head(s)>>
          ELSE <<>>) \o C7_PerChar(Tail(s), under)

\* C7 as stated: leading/trailing whitespace stripped, every internal whitespace
\* character replaced by an underscore, every character that is not
\* alphanumeric or underscore deleted.
C7_WhitespaceToUnderscore ==
    pc \in {"once", "twice"} => once = C7_PerChar(C7_Trim(label), Whitespace)

\* C7 amended: leading/trailing whitespace stripped, every internal space
\* character (U+0020) replaced by an underscore, every other character that is
\* not alphanumeric or underscore (other whitespace included) deleted.
C7_SpaceToUnderscore ==
    pc \in {"once", "twice"} => once = C7_PerChar(C7_Trim(label), {" "})

C7_Witness ==
    /\ pc = "once"
    /\ \E i \in 2..(Len(label) - 1) : label[i] = "\t"
    /\ \E i \in 2..(Len(label) - 1) : label[i] = " "
    /\ label[1] = "a" /\ label[Len(label)] = "B"
    /\ once = <<"a", "_", "B">>

\* C8: normalization is idempotent: normalize(normalize(x)) = normalize(x).
C8_Idempotent == pc = "twice" => twice = once

C8_Witness == pc = "twice" /\ once # label /\ once # <<>> /\ twice = once

\* ------------------------------------------------------------------ pro3_st.py: the dashboard script

MileageMin == 0
MileageMax == 800000
CombustionMin == 600
CombustionMax == 7000
ElectricMin == 20
ElectricMax == 150

\* a comparison with NaN is False
Ge(v, n) == IsNum(v) /\ v.n >= n
Le(v, n) == IsNum(v) /\ v.n <= n

\* lines 38-40 on the whole frame
coerce_columns(d) ==
    [i \in 1..Len(d) |-> [d[i] EXCEPT !.engine_capacity = to_numeric(clean_engine_capacity(@)),
                                      !.mileage = to_numeric(@)]]

mileage_filter_exclusive(d) == SelectSeq(d, LAMBDA r : Ge(r.mileage, MileageMin) /\ Le(r.mileage, MileageMax - 1))

\* line 43
mileage_filter(d) == SelectSeq(d, LAMBDA r : Ge(r.mileage, MileageMin) /\ Le(r.mileage, MileageMax))

\* lines 44-47
engine_filter(d) ==
    SelectSeq(d, LAMBDA r :
        \/ Ge(r.engine_capacity, CombustionMin) /\ Le(r.engine_capacity, CombustionMax)
        \/ Ge(r.engine_capacity, ElectricMin) /\ Le(r.engine_capacity, ElectricMax))

\* line 48
dropna_engine(d) == SelectSeq(d, LAMBDA r : ~IsNaN(r.engine_capacity))

\* x.split(' ')[0]
FirstField(s) ==
    LET I == {i \in 1..Len(s) : s[i] = " "}
    IN  IF I = {} THEN s ELSE SubSeq(s, 1, Min(I) - 1)

\* line 51 on one cell: .str gives NaN for a missing title
brand_of(title) == IF IsText(title) THEN Text(FirstField(title.s)) ELSE NaN

\* read_csv gives an all-missing column the dtype float64, and .str raises on it
title_is_object(d) == d = <<>> \/ \E i \in 1..Len(d) : IsText(d[i].title)

\* Series.unique() as a set
unique_brands(d) == {d[i].brand : i \in 1..Len(d)}

YearsOf(d) == {d[i].year.n : i \in {j \in 1..Len(d) : IsNum(d[j].year)}}

\* line 70: isin matches a missing brand with a missing one in the selection
brand_filter(d, sel) == SelectSeq(d, LAMBDA r : r.brand \in sel)

\* line 72
year_filter(d, yrs) == SelectSeq(d, LAMBDA r : Ge(r.year, yrs[1]) /\ Le(r.year, yrs[2]))

RECURSIVE SumOf(_)
SumOf(s) == IF s = <<>> THEN 0 ELSE Head(s) + SumOf(Tail(s))

Avg(sum, cnt) == [t |-> "avg", sum |-> sum, cnt |-> cnt]

ColumnNums(d, col) ==
    LET present == SelectSeq(d, LAMBDA r : IsNum(r[col]))
    IN  [i \in 1..Len(present) |-> present[i][col].n]

\* Series.mean(): the missing cells are skipped, no cell left gives NaN; the mean
\* is kept as the exact quotient sum / cnt
mean(d, col) ==
    LET ns == ColumnNums(d, col)
    IN  IF ns = <<>> THEN NaN ELSE Avg(SumOf(ns), Len(ns))

\* Series.min() and Series.max()
min_of(d, col) ==
    LET ns == ColumnNums(d, col)
    IN  IF ns = <<>> THEN NaN ELSE Num(Min({ns[i] : i \in 1..Len(ns)}))

max_of(d, col) ==
    LET ns == ColumnNums(d, col)
    IN  IF ns = <<>> THEN NaN ELSE Num(Max({ns[i] : i \in 1..Len(ns)}))

\* round() to the nearest integer, a tie to the even one, of sum / cnt >= 0
RoundHalfEven(sum, cnt) ==
    LET q == sum \div cnt
        r == sum % cnt
    IN  IF 2 * r < cnt THEN q
        ELSE IF 2 * r > cnt THEN q + 1
        ELSE IF q % 2 = 0 THEN q ELSE q + 1

\* the "," option of a format: a comma before every group of three digits
RECURSIVE Grouped(_)
Grouped(ds) ==
    IF Len(ds) <= 3 THEN ds
    ELSE Grouped(SubSeq(ds, 1, Len(ds) - 3)) \o <<",">> \o SubSeq(ds, Len(ds) - 2, Len(ds))

\* f"{x:,.0f}" of a value >= 0 or NaN
format_0f(v) ==
    CASE v.t = "nan" -> <<"n", "a", "n">>
      [] v.t = "num" -> Grouped(Digits(v.n))
      [] v.t = "avg" -> Grouped(Digits(RoundHalfEven(v.sum, v.cnt)))

\* lines 80-84: the five texts shown
metrics(d) ==
    [total |-> Grouped(Digits(Len(d))),
     avg_price |-> format_0f(mean(d, "price")),
     min_mileage |-> format_0f(min_of(d, "mileage")),
     max_mileage |-> format_0f(max_of(d, "mileage")),
     avg_engine |-> format_0f(mean(d, "engine_capacity"))]

\* line 152: one group per year present, rows without a year in no group
price_by_year(d) ==
    [y \in YearsOf(d) |-> mean(SelectSeq(d, LAMBDA r : r.year = Num(y)), "price")]

\* ---- the datasets read_csv may hand over

T(s) == Text(s)

BaseRow == [title |-> T(<<"T", " ", "a">>), price |-> Num(100), year |-> Num(2015),
            mileage |-> Num(0), engine_capacity |-> Num(600)]

KeptRows ==
    {[BaseRow EXCEPT !.mileage = me[1], !.engine_capacity = me[2]] : me \in
        {<<Num(800000), Num(7000)>>, <<T(<<" ", "2", "0">>), Num(20)>>, <<Num(0), Num(150)>>,
         <<Num(0), T(<<"2", "0", " ", "C", "c">>)>>, <<Num(0), T(<<"7", "0", "0">>)>>,
         <<Num(0), T(<<"2", "c", "c", "2">>)>>}}

DroppedRows ==
    {[BaseRow EXCEPT !.mileage = m] : m \in {Num(-1), Num(800001), NaN, T(<<"2", " ", "0">>)}}
    \cup {[BaseRow EXCEPT !.engine_capacity = e] : e \in
            {Num(19), Num(151), Num(599), Num(7001), NaN, T(<<"x">>), T(<<"7", "c", "\t", "c">>)}}
    \cup {[BaseRow EXCEPT !.mileage = Num(800001), !.engine_capacity = Num(19)]}

RaisingRows == {[BaseRow EXCEPT !.engine_capacity = T(<<"sup2", "c", "c">>)]}

OtherRows ==
    {[BaseRow EXCEPT !.title = NaN],
     [BaseRow EXCEPT !.title = T(<<" ", "T">>)],
     [BaseRow EXCEPT !.title = T(<<"H">>), !.year = Num(2014), !.price = Num(300)],
     [BaseRow EXCEPT !.title = T(<<"T", "\t", "a">>), !.year = NaN],
     [BaseRow EXCEPT !.price = NaN]}

CsvRows == {BaseRow} \cup KeptRows \cup DroppedRows \cup RaisingRows \cup OtherRows

\* the frame of line 22, with its RangeIndex
Frames(most) == UNION {{[i \in 1..k |-> [idx |-> i - 1] @@ f[i]] : f \in [1..k -> CsvRows]} : k \in 0..most}

InitDash ==
    /\ pc = "loaded"
    /\ csv \in Frames(MaxRows)
    /\ df = csv
    /\ selected_brands = Idle /\ selected_years = Idle /\ df_filtered = Idle
    /\ kpi = Idle /\ avg_price_per_year = Idle
    /\ EngIdle /\ NormIdle /\ LoadIdle

dashRest == <<csv, engVars, normVars, loadVars>>

\* lines 38-48; int() raising inside the apply of line 38 ends the script
Clean ==
    /\ pc = "loaded"
    /\ \A i \in 1..Len(df) : clean_engine_capacity(df[i].engine_capacity) # Raised
    /\ df' = dropna_engine(engine_filter(mileage_filter(coerce_columns(df))))
    /\ pc' = "cleaned"
    /\ UNCHANGED <<selected_brands, selected_years, df_filtered, kpi, avg_price_per_year, dashRest>>

CleanRaises ==
    /\ pc = "loaded"
    /\ \E i \in 1..Len(df) : clean_engine_capacity(df[i].engine_capacity) = Raised
    /\ pc' = "raised38"
    /\ UNCHANGED <<csv, dashVars, engVars, normVars, loadVars>>

\* line 51
ExtractBrand ==
    /\ pc = "cleaned"
    /\ title_is_object(csv)
    /\ df' = [i \in 1..Len(df) |-> [brand |-> brand_of(df[i].title)] @@ df[i]]
    /\ pc' = "branded"
    /\ UNCHANGED <<selected_brands, selected_years, df_filtered, kpi, avg_price_per_year, dashRest>>

ExtractBrandRaises ==
    /\ pc = "cleaned"
    /\ ~title_is_object(csv)
    /\ pc' = "raised51"
    /\ UNCHANGED <<csv, dashVars, engVars, normVars, loadVars>>

\* lines 59-65: the multiselect returns any subset of the brands, the slider any
\* range within [min_year, max_year]
Widgets ==
    /\ pc = "branded"
    /\ YearsOf(df) # {}
    /\ \E sel \in SUBSET unique_brands(df) : selected_brands' = sel
    /\ LET min_year == Min(YearsOf(df))
           max_year == Max(YearsOf(df))
       IN  \E lo \in min_year..max_year : \E hi \in lo..max_year : selected_years' = <<lo, hi>>
    /\ pc' = "selected"
    /\ UNCHANGED <<df, df_filtered, kpi, avg_price_per_year, dashRest>>

\* lines 59-64: the multiselect has returned (line 60) when line 64 raises on
\* int() of the NaN that min() gives when no row has a year
WidgetsRaise ==
    /\ pc = "branded"
    /\ YearsOf(df) = {}
    /\ \E sel \in SUBSET unique_brands(df) : selected_brands' = sel
    /\ pc' = "raised64"
    /\ UNCHANGED <<df, selected_years, df_filtered, kpi, avg_price_per_year, dashRest>>

\* lines 70-72
ApplyFilters ==
    /\ pc = "selected"
    /\ df_filtered' = year_filter(brand_filter(df, selected_brands), selected_years)
    /\ pc' = "filtered"
    /\ UNCHANGED <<df, selected_brands, selected_years, kpi, avg_price_per_year, dashRest>>

\* lines 80-84
KPIs ==
    /\ pc = "filtered"
    /\ kpi' = metrics(df_filtered)
    /\ pc' = "kpis"
    /\ UNCHANGED <<df, selected_brands, selected_years, df_filtered, avg_price_per_year, dashRest>>

\* lines 150-152
AveragePriceTrend ==
    /\ pc = "kpis"
    /\ avg_price_per_year' = price_by_year(df_filtered)
    /\ pc' = "done"
    /\ UNCHANGED <<df, selected_brands, selected_years, df_filtered, kpi, dashRest>>

NextDash ==
    \/ Clean \/ CleanRaises \/ ExtractBrand \/ ExtractBrandRaises
    \/ Widgets \/ WidgetsRaise \/ ApplyFilters \/ KPIs \/ AveragePriceTrend

SpecDash == InitDash /\ [][NextDash]_vars

DashAfterBrand == {"branded", "selected", "filtered", "kpis", "done", "raised64"}
DashAfterFilter == {"filtered", "kpis", "done"}

C1_Mileage(r) == to_numeric(r.mileage)
C1_Engine(r) == to_numeric(clean_engine_capacity(r.engine_capacity))

C1_InRange(r) ==
    /\ IsNum(C1_Mileage(r)) /\ C1_Mileage(r).n \in 0..800000
    /\ IsNum(C1_Engine(r))
    /\ C1_Engine(r).n \in 600..7000 \/ C1_Engine(r).n \in 20..150

\* C1: the cleaned set holds exactly the input rows whose coerced mileage is in
\* [0, 800000] and whose coerced engine_capacity is present and in [600, 7000]
\* or [20, 150]; every other row is absent; a retained row keeps its (coerced)
\* values and the retained rows keep their input order.
C1_OutlierRemoval ==
    pc = "cleaned" =>
        /\ \A i \in 1..Len(csv) : C1_InRange(csv[i]) <=> \E j \in 1..Len(df) : df[j].idx = csv[i].idx
        /\ \A j \in 1..Len(df) :
              LET r == csv[df[j].idx + 1]
              IN  df[j] = [r EXCEPT !.mileage = C1_Mileage(r), !.engine_capacity = C1_Engine(r)]
        /\ \A j \in 1..Len(df) : \A k \in 1..Len(df) : j < k => df[j].idx < df[k].idx

C1_Witness ==
    /\ pc = "cleaned"
    /\ Len(csv) = 2 /\ Len(df) = 1 /\ df[1].idx = 1
    /\ csv[1].mileage = Num(800001)
    /\ IsText(csv[2].engine_capacity) /\ df[1].engine_capacity = Num(20)

\* C4: an empty brand selection yields zero rows, and all distinct brands with
\* the full observed [min year, max year] yields every row of the cleaned set,
\* rows whose year or brand is missing included.
C4_EmptyAndFullSelection ==
    pc \in DashAfterFilter =>
        /\ selected_brands = {} => df_filtered = <<>>
        /\ (/\ selected_brands = unique_brands(df)
            /\ selected_years = <<Min(YearsOf(df)), Max(YearsOf(df))>>) => df_filtered = df

C5_NoData == <<"n", "a", "n">>

\* C5: whenever the filtered subset is empty (empty brand selection, a year range
\* matching no row, or an empty cleaned set) every aggregate gives a "no data"
\* signal (a count of "0", "nan", no group) and no step raises.
C5_EmptyTolerated ==
    /\ pc = "raised64" => df # <<>>
    /\ (pc \in {"kpis", "done"} /\ df_filtered = <<>>) =>
          /\ kpi.total = <<"0">>
          /\ kpi.avg_price = C5_NoData /\ kpi.min_mileage = C5_NoData
          /\ kpi.max_mileage = C5_NoData /\ kpi.avg_engine = C5_NoData
    /\ (pc = "done" /\ df_filtered = <<>>) => DOMAIN avg_price_per_year = {}

\* str.split()[0]: the first token between runs of any whitespace
C6_FirstToken(s) ==
    LET b == LStrip(s)
        I == {i \in 1..Len(b) : b[i] \in Whitespace}
    IN  IF I = {} THEN b ELSE SubSeq(b, 1, Min(I) - 1)

\* C6: brand is the first whitespace-delimited token of title, for any
\* whitespace character and regardless of leading whitespace; a missing or
\* empty title gives an empty or undefined brand. (Stated of the runs in which
\* line 51 returned.)
C6_BrandIsFirstToken ==
    pc \in DashAfterBrand =>
        \A i \in 1..Len(df) :
            IF IsText(df[i].title) /\ C6_FirstToken(df[i].title.s) # <<>>
            THEN df[i].brand = Text(C6_FirstToken(df[i].title.s))
            ELSE df[i].brand \in {NaN, Text(<<>>)}

\* ------------------------------------------------------------------ load_to_db.py: the load

FloatCols == {"price", "mileage", "engine_capacity"}
IntCols == {"year"}
TextCols == {"title", "fuel", "transmission", "Registered_In", "Color", "Body_Type",
             "Assembly", "Last_Updated"}
Columns == FloatCols \cup IntCols \cup TextCols

\* line 14: df.fillna(0) puts 0 in every missing cell, whatever its column
fillna0(d) == [i \in 1..Len(d) |-> [c \in DOMAIN d[i] |-> IF IsNaN(d[i][c]) THEN Num(0) ELSE d[i][c]]]

\* a column with no text cell has a numeric dtype (float64 when all is missing)
is_float_column(d, c) == \A i \in 1..Len(d) : ~IsText(d[i][c])

\* str() of a cell: a text is itself, the float 0.0 reads "0.0", the int 0 reads "0"
py_str(v, float_col) ==
    IF IsText(v) THEN Text(v.s)
    ELSE Text(Digits(v.n) \o (IF float_col THEN <<".", "0">> ELSE <<>>))

\* float() and int() of a cell: a number stays, a text is parsed or raises
py_number(v) ==
    IF IsNum(v) THEN v
    ELSE LET b == Strip(v.s)
         IN  IF b # <<>> /\ \A i \in 1..Len(b) : IsDecimal(b[i]) THEN Num(ParseInt(b)) ELSE Raised

\* lines 50-61: the twelve parameters of one INSERT
insert_values(d, i) ==
    [c \in Columns |-> IF c \in TextCols THEN py_str(d[i][c], is_float_column(d, c))
                       ELSE py_number(d[i][c])]

conversion_raises(d, i) == \E c \in Columns : insert_values(d, i)[c] = Raised

NoTransaction == [recreate |-> FALSE, stored |-> <<>>]

\* conn.commit(): the open transaction becomes the content of dbo.Cars
commit(tbl, pend) == (IF pend.recreate THEN <<>> ELSE tbl) \o pend.stored

after_exit_autocommit(tbl, pend) == commit(tbl, pend)

\* line 19 opens the connection with pyodbc's default autocommit=False: a script
\* that ends before conn.commit() loses the open transaction
after_exit(tbl, pend) == tbl

LoadBase == [c \in Columns |-> CASE c \in TextCols -> T(<<"x">>)
                                 [] c = "year" -> Num(2015)
                                 [] c = "price" -> Num(100)
                                 [] OTHER -> Num(600)]

LoadRows ==
    {LoadBase,
     [LoadBase EXCEPT !.title = NaN],
     [LoadBase EXCEPT !.fuel = NaN, !.price = NaN],
     [LoadBase EXCEPT !.year = NaN, !.Color = T(<<"a", " ", "b">>)],
     [LoadBase EXCEPT !.price = T(<<"x">>)],
     [LoadBase EXCEPT !.year = T(<<"2", "0">>), !.mileage = NaN]}

LoadFrames(most) == UNION {[1..k -> LoadRows] : k \in 0..most}

\* what an earlier run may have left in dbo.Cars
EarlierTables == {<<>>, <<insert_values(<<LoadBase>>, 1)>>}

InitLoad ==
    /\ pc = "read"
    /\ csv \in LoadFrames(MaxLoad)
    /\ rows = csv
    /\ table \in EarlierTables
    /\ pending = NoTransaction
    /\ inserted = 0
    /\ log = <<>>
    /\ EngIdle /\ NormIdle /\ DashIdle

loadRest == <<csv, engVars, normVars, dashVars>>

\* lines 11-14: the labels are those of the INSERT once normalized; fillna(0)
Prepare ==
    /\ pc = "read"
    /\ rows' = fillna0(rows)
    /\ pc' = "filled"
    /\ UNCHANGED <<table, pending, inserted, log, loadRest>>

\* lines 19-20
Connect ==
    /\ pc = "filled"
    /\ pc' = "connected"
    /\ UNCHANGED <<loadVars, loadRest>>

\* line 19 raising: server unreachable
ConnectFails ==
    /\ pc = "filled"
    /\ pc' = "raised19"
    /\ UNCHANGED <<loadVars, loadRest>>

\* lines 23-41: drop if there, create
CreateTable ==
    /\ pc = "connected"
    /\ pending' = [recreate |-> TRUE, stored |-> <<>>]
    /\ log' = Append(log, "create")
    /\ pc' = "created"
    /\ UNCHANGED <<rows, table, inserted, loadRest>>

\* line 42
CommitSchema ==
    /\ pc = "created"
    /\ table' = commit(table, pending)
    /\ pending' = NoTransaction
    /\ log' = Append(log, "commit")
    /\ pc' = "inserting"
    /\ UNCHANGED <<rows, inserted, loadRest>>

\* lines 45-62, one turn of the loop
InsertRow ==
    /\ pc = "inserting"
    /\ inserted < Len(rows)
    /\ ~conversion_raises(rows, inserted + 1)
    /\ pending' = [pending EXCEPT !.stored = Append(@, insert_values(rows, inserted + 1))]
    /\ inserted' = inserted + 1
    /\ log' = Append(log, "insert")
    /\ UNCHANGED <<pc, rows, table, loadRest>>

\* lines 50-61 raising: float() or int() of a text that is no number
InsertRaises ==
    /\ pc = "inserting"
    /\ inserted < Len(rows)
    /\ conversion_raises(rows, inserted + 1)
    /\ table' = after_exit(table, pending)
    /\ pending' = NoTransaction
    /\ pc' = "raised46"
    /\ UNCHANGED <<rows, inserted, log, loadRest>>

\* line 46 raising: the server or the connection fails
InsertFails ==
    /\ pc = "inserting"
    /\ inserted < Len(rows)
    /\ table' = after_exit(table, pending)
    /\ pending' = NoTransaction
    /\ pc' = "raised46"
    /\ UNCHANGED <<rows, inserted, log, loadRest>>

\* line 64
CommitRows ==
    /\ pc = "inserting"
    /\ inserted = Len(rows)
    /\ table' = commit(table, pending)
    /\ pending' = NoTransaction
    /\ log' = Append(log, "commit")
    /\ pc' = "committed"
    /\ UNCHANGED <<rows, inserted, loadRest>>

\* lines 65-68
Close ==
    /\ pc = "committed"
    /\ pc' = "closed"
    /\ UNCHANGED <<loadVars, loadRest>>

NextLoad ==
    \/ Prepare \/ Connect \/ ConnectFails \/ CreateTable \/ CommitSchema
    \/ InsertRow \/ InsertRaises \/ InsertFails \/ CommitRows \/ Close

SpecLoad == InitLoad /\ [][NextLoad]_vars

\* the rows the server holds for this run, committed or not
C9_Sent == IF pc = "inserting" THEN pending.stored ELSE table

\* C9: every missing value is replaced before storage by the zero-equivalent of
\* its column's type: 0 for price/year/mileage/engine_capacity, the empty string
\* for the text columns; values that are there are stored unchanged.
C9_TypedDefaults ==
    pc \in {"inserting", "committed", "closed"} =>
        \A i \in 1..Len(C9_Sent) : \A c \in Columns :
            C9_Sent[i][c] = IF IsNaN(csv[i][c])
                            THEN (IF c \in TextCols THEN Text(<<>>) ELSE Num(0))
                            ELSE IF c \in TextCols THEN csv[i][c] ELSE py_number(csv[i][c])

C10_Inserts(n) == [i \in 1..n |-> "insert"]

\* the order of a load: create, commit, the inserts, and a commit after the last
C10_Ordered ==
    \/ log \in {<<>>, <<"create">>}
    \/ \E n \in 0..Len(rows) :
          \/ log = <<"create", "commit">> \o C10_Inserts(n) /\ n = inserted
          \/ /\ log = <<"create", "commit">> \o C10_Inserts(n) \o <<"commit">>
             /\ n = Len(rows) /\ pc \in {"committed", "closed"}

\* C10 as stated: a failure after k >= 1 inserted rows leaves dbo.Cars holding
\* those k rows.
C10_PartialRowsKept ==
    (pc = "raised46" /\ inserted >= 1) => Len(table) = inserted

\* C10 amended: create is committed first, the rows are inserted one by one, one
\* commit follows the last insert; a failure after k >= 1 inserted rows ends the
\* run before that commit and leaves dbo.Cars recreated and empty, the k rows
\* rolled back with the open transaction.
C10_FailureRollsBack ==
    /\ C10_Ordered
    /\ pc = "raised46" => table = <<>> /\ log = <<"create", "commit">> \o C10_Inserts(inserted)
    /\ pc \in {"committed", "closed"} => Len(table) = Len(rows)

C10_Witness == pc = "raised46" /\ inserted >= 1 /\ table = <<>> /\ Len(rows) > inserted

====
